---------------------------- MODULE Spec2Model ----------------------------
(***************************************************************************)
(* Calendar assistant back end (Ardakacd/calendar-ai).                     *)
(*                                                                         *)
(* Part 1: the event store as EventAdapter (adapter/event_adapter.py)      *)
(* drives it: rows of the events table and the adapter's operations.       *)
(* Part 2: one turn of the conversational flow (flow/builder.py and the    *)
(* agents under flow/), reading the store through the same adapter.        *)
(* Part 3: two requests of EventService.create_event_with_conflict_check   *)
(* (services/event_service.py) interleaving on the same store.             *)
(*                                                                         *)
(* Time is counted in whole minutes; an event id is an opaque string (a    *)
(* UUID in the code).  Python's None is the integer None for optional      *)
(* numbers/dates and the string NoneStr for optional strings.              *)
(*                                                                         *)
(* Every function is modelled from its own text.  A name a function takes  *)
(* from another file is given the meaning the function relies on: the      *)
(* Event(...) call of _convert_to_model yields the Event it spells out.    *)
(***************************************************************************)
EXTENDS Integers, Sequences, FiniteSets, TLC

VARIABLES
    store,        \* rows of the events table (EventModel)
    usedIds,      \* event_id values generated so far (uuid4 never repeats)
    last,         \* the last adapter call: its arguments and what it returned
    pc,           \* the node of the flow graph that runs next (Part 3: the
                  \* await each request is at)
    state,        \* the FlowState of the turn (Part 3: the locals of each
                  \* request)
    attempt,      \* attempts the retry decorator has made of the current node
    model_calls,  \* calls of model.ainvoke made so far: node and outcome
    trace,        \* the nodes that have run, in order
    result        \* what AssistantService.process hands to its caller

storeVars == <<store, usedIds, last>>
flowVars == <<pc, state, attempt, model_calls, trace, result>>
vars == <<store, usedIds, last, pc, state, attempt, model_calls, trace, result>>

-----------------------------------------------------------------------------
(* Domains of the inputs *)

None == -999
NoneStr == "None"

MaxTime == 1
MaxDuration == 2

Users == {1, 2}
EventIds == {"e1", "e2"}
IdUniverse == EventIds \cup {"e9"}
Titles == {"a", "b"}
Locations == {NoneStr}
StartDates == 0..MaxTime
Durations == (-1)..MaxDuration
Limits == {None, 0, 1}

EventCreateInputs ==
    [title : Titles, startDate : StartDates,
     duration : Durations \cup {None}, location : Locations]

EventUpdateInputs ==
    [title : {NoneStr, "b"}, startDate : StartDates \cup {None},
     duration : Durations \cup {None}, location : Locations]

-----------------------------------------------------------------------------
(* Rows and conversions *)

EventModel(event_id, user_id, title, startDate, endDate, location) ==
    [event_id |-> event_id, user_id |-> user_id, title |-> title,
     startDate |-> startDate, endDate |-> endDate, location |-> location]

\* EventAdapter._convert_to_model: the Event handed to callers; duration is
\* recomputed from the two dates.
_convert_to_model(event_model) ==
    [id |-> event_model.event_id,
     title |-> event_model.title,
     startDate |-> event_model.startDate,
     endDate |-> event_model.endDate,
     duration |-> event_model.endDate - event_model.startDate,
     location |-> event_model.location,
     user_id |-> event_model.user_id]

\* EventAdapter._convert_to_db_model: the row to insert (event_id comes from
\* the column default).
_convert_to_db_model(user_id, event_data, event_id) ==
    LET end_date == IF event_data.duration # None /\ event_data.duration # 0
                       /\ event_data.duration > 0
                    THEN event_data.startDate + event_data.duration
                    ELSE event_data.startDate
    IN EventModel(event_id, user_id, event_data.title, event_data.startDate,
                  end_date, event_data.location)

Ok(v) == [tag |-> "ok", value |-> v]
Raise(e) == [tag |-> "raise", exc |-> e]
NoEvent == [kind |-> "None"]

Truthy(x) == x # None /\ x # 0

Min(a, b) == IF a <= b THEN a ELSE b

\* All orderings of the rows of S (a SELECT without further tie-break).
RowOrders(S) ==
    {f \in [1..Cardinality(S) -> S] :
        \A i, j \in 1..Cardinality(S) : i # j => f[i] # f[j]}

\* .order_by(EventModel.startDate.asc())
OrderByStartAsc(S) ==
    {f \in RowOrders(S) :
        \A i, j \in 1..Cardinality(S) : i < j => f[i].startDate <= f[j].startDate}

\* .order_by(EventModel.startDate.desc())
OrderByStartDesc(S) ==
    {f \in RowOrders(S) :
        \A i, j \in 1..Cardinality(S) : i < j => f[i].startDate >= f[j].startDate}

\* "if offset: stmt.offset(offset)" then "if limit: stmt.limit(limit)"
OffsetLimit(rows, limit, offset) ==
    LET o == IF Truthy(offset) THEN Min(offset, Len(rows)) ELSE 0
        rest == [i \in 1..(Len(rows) - o) |-> rows[i + o]]
        n == IF Truthy(limit) THEN Min(limit, Len(rest)) ELSE Len(rest)
    IN [i \in 1..n |-> rest[i]]

ConvertAll(rows) == [i \in 1..Len(rows) |-> _convert_to_model(rows[i])]

Range(f) == {f[i] : i \in DOMAIN f}

-----------------------------------------------------------------------------
(* EventAdapter: one action per method.  fail = the session raised          *)
(* SQLAlchemyError while executing or committing.                           *)

NoTurn ==
    /\ pc = "no_turn"
    /\ state = [user_id |-> None]
    /\ attempt = 0
    /\ model_calls = <<>>
    /\ trace = <<>>
    /\ result = [kind |-> "none"]

Init ==
    /\ store = {}
    /\ usedIds = {}
    /\ last = [op |-> "none"]
    /\ NoTurn

create_event(user_id, event_data, fail) ==
    \E event_id \in EventIds \ usedIds :
        LET db_event == _convert_to_db_model(user_id, event_data, event_id) IN
        IF fail
        THEN /\ UNCHANGED <<store, usedIds>>
             /\ last' = [op |-> "create_event", user_id |-> user_id,
                         fail |-> TRUE, res |-> Raise("DatabaseError")]
        ELSE /\ store' = store \cup {db_event}
             /\ usedIds' = usedIds \cup {event_id}
             /\ last' = [op |-> "create_event", user_id |-> user_id,
                         fail |-> FALSE, res |-> Ok(_convert_to_model(db_event))]

create_events(user_id, event_data, fail) ==
    \E ids \in [1..Len(event_data) -> EventIds \ usedIds] :
        /\ \A i, j \in 1..Len(event_data) : i # j => ids[i] # ids[j]
        /\ LET db_events == [i \in 1..Len(event_data) |->
                               _convert_to_db_model(user_id, event_data[i], ids[i])]
           IN IF fail
              THEN /\ UNCHANGED <<store, usedIds>>
                   /\ last' = [op |-> "create_events", user_id |-> user_id,
                               fail |-> TRUE, res |-> Raise("DatabaseError")]
              ELSE /\ store' = store \cup Range(db_events)
                   /\ usedIds' = usedIds \cup Range(ids)
                   /\ last' = [op |-> "create_events", user_id |-> user_id,
                               fail |-> FALSE, res |-> Ok(ConvertAll(db_events))]

\* update_event as it would be if a zero duration left endDate as it was.
UpdatedRowKeepsEnd(db_event, event_data) ==
    LET startDate == IF event_data.startDate # None
                     THEN event_data.startDate ELSE db_event.startDate
        duration == IF event_data.duration # None THEN event_data.duration ELSE 0
        endDate == IF (event_data.duration # None \/ event_data.startDate # None)
                      /\ duration # 0
                   THEN startDate + duration
                   ELSE db_event.endDate
    IN EventModel(db_event.event_id, db_event.user_id,
                  IF event_data.title # NoneStr THEN event_data.title
                  ELSE db_event.title,
                  startDate, endDate,
                  IF event_data.location # NoneStr THEN event_data.location
                  ELSE db_event.location)

\* The update_data dictionary update_event builds (lines 291-309), applied
\* to the row.
UpdatedRow(db_event, event_data) ==
    LET title == IF event_data.title # NoneStr
                 THEN event_data.title ELSE db_event.title
        startDate == IF event_data.startDate # None
                     THEN event_data.startDate ELSE db_event.startDate
        location == IF event_data.location # NoneStr
                    THEN event_data.location ELSE db_event.location
        endDate ==
            IF event_data.duration # None \/ event_data.startDate # None
            THEN LET start_date == IF event_data.startDate # None
                                   THEN event_data.startDate
                                   ELSE db_event.startDate
                     duration == IF event_data.duration # None
                                 THEN event_data.duration ELSE 0
                 IN start_date + duration
            ELSE db_event.endDate
    IN EventModel(db_event.event_id, db_event.user_id, title, startDate,
                  endDate, location)

update_event(event_id, user_id, event_data, fail) ==
    LET found == {m \in store : m.event_id = event_id}
        call == [op |-> "update_event", event_id |-> event_id,
                 user_id |-> user_id, event_data |-> event_data, fail |-> fail]
    IN
    IF fail
    THEN /\ UNCHANGED <<store, usedIds>>
         /\ last' = [op |-> "update_event", event_id |-> event_id,
                     user_id |-> user_id, fail |-> TRUE,
                     before |-> NoEvent, res |-> Raise("DatabaseError")]
    ELSE IF found = {}
    THEN /\ UNCHANGED <<store, usedIds>>
         /\ last' = call @@ [before |-> NoEvent, res |-> Raise("EventNotFoundError")]
    ELSE LET db_event == CHOOSE m \in found : TRUE IN
         IF db_event.user_id # user_id
         THEN /\ UNCHANGED <<store, usedIds>>
              /\ last' = call @@ [before |-> db_event,
                                  res |-> Raise("EventPermissionError")]
         ELSE LET new == UpdatedRow(db_event, event_data) IN
              /\ store' = (store \ {db_event}) \cup {new}
              /\ UNCHANGED usedIds
              /\ last' = call @@ [before |-> db_event,
                                  res |-> Ok(_convert_to_model(new))]

delete_event(event_id, user_id, fail) ==
    LET matched == {m \in store : m.event_id = event_id /\ m.user_id = user_id}
        deleted_count == Cardinality(matched)
        call == [op |-> "delete_event", event_id |-> event_id,
                 user_id |-> user_id, fail |-> fail]
    IN
    IF ~fail /\ deleted_count = 1
    THEN /\ store' = store \ matched
         /\ UNCHANGED usedIds
         /\ last' = call @@ [res |-> Ok(TRUE)]
    ELSE /\ UNCHANGED <<store, usedIds>>
         /\ last' = call @@ [res |-> Ok(FALSE)]

delete_multiple_events(event_ids, user_id, fail) ==
    LET matched == {m \in store : m.event_id \in Range(event_ids)
                                  /\ m.user_id = user_id}
        deleted_count == Cardinality(matched)
        call == [op |-> "delete_multiple_events", event_ids |-> event_ids,
                 user_id |-> user_id, fail |-> fail]
    IN
    IF ~fail /\ deleted_count = Len(event_ids)
    THEN /\ store' = store \ matched
         /\ UNCHANGED usedIds
         /\ last' = call @@ [res |-> Ok(TRUE)]
    ELSE /\ UNCHANGED <<store, usedIds>>
         /\ last' = call @@ [res |-> Ok(FALSE)]

\* The WHERE clause with a closed comparison on one side of the overlap.
ConflictConditionClosedStart(m, user_id, start_date, end_date, exclude_event_id) ==
    /\ m.user_id = user_id
    /\ \/ (m.startDate <= end_date /\ m.endDate > start_date)
       \/ (m.startDate = start_date /\ m.endDate = end_date)
    /\ (exclude_event_id # NoneStr => m.event_id # exclude_event_id)

\* The WHERE clause without the exclude_event_id filter.
ConflictConditionNoExclude(m, user_id, start_date, end_date, exclude_event_id) ==
    /\ m.user_id = user_id
    /\ \/ (m.startDate < end_date /\ m.endDate > start_date)
       \/ (m.startDate = start_date /\ m.endDate = end_date)

\* The WHERE clause with the exact-match condition only.
ConflictConditionExactOnly(m, user_id, start_date, end_date, exclude_event_id) ==
    /\ m.user_id = user_id
    /\ (m.startDate = start_date /\ m.endDate = end_date)
    /\ (exclude_event_id # NoneStr => m.event_id # exclude_event_id)

\* The WHERE clause of check_event_conflict (lines 447-462).
ConflictCondition(m, user_id, start_date, end_date, exclude_event_id) ==
    /\ m.user_id = user_id
    /\ \/ (m.startDate < end_date /\ m.endDate > start_date)
       \/ (m.startDate = start_date /\ m.endDate = end_date)
    /\ (exclude_event_id # NoneStr => m.event_id # exclude_event_id)

\* What check_event_conflict can return on the rows S: .limit(1) without an
\* ORDER BY picks any matching row; a failed query returns None as well.
CheckEventConflictReturns(S, user_id, start_date, end_date, exclude_event_id, fail) ==
    LET matching == {m \in S : ConflictCondition(m, user_id, start_date,
                                                 end_date, exclude_event_id)}
    IN IF fail \/ matching = {}
       THEN {NoEvent}
       ELSE {_convert_to_model(m) : m \in matching}

check_event_conflict(user_id, start_date, end_date, exclude_event_id, fail) ==
    \E r \in CheckEventConflictReturns(store, user_id, start_date, end_date,
                                       exclude_event_id, fail) :
        /\ UNCHANGED <<store, usedIds>>
        /\ last' = [op |-> "check_event_conflict", user_id |-> user_id,
                    start_date |-> start_date, end_date |-> end_date,
                    exclude_event_id |-> exclude_event_id, fail |-> fail,
                    res |-> Ok(r)]

\* The selection with the end bound applied to startDate.
DateRangeRowsEndOnStart(S, user_id, start_date, end_date) ==
    OrderByStartAsc({m \in S :
        /\ m.user_id = user_id
        /\ (start_date # None => m.startDate >= start_date)
        /\ (end_date # None => m.startDate <= end_date)})

\* The rows get_events_by_date_range selects (lines 238-245), in every order
\* the ORDER BY allows.
DateRangeRows(S, user_id, start_date, end_date) ==
    OrderByStartAsc({m \in S :
        /\ m.user_id = user_id
        /\ (start_date # None => m.startDate >= start_date)
        /\ (end_date # None => m.endDate <= end_date)})

get_events_by_date_range(user_id, start_date, end_date, fail) ==
    LET call == [op |-> "get_events_by_date_range", user_id |-> user_id,
                 start_date |-> start_date, end_date |-> end_date, fail |-> fail]
    IN
    /\ UNCHANGED <<store, usedIds>>
    /\ IF fail
       THEN last' = call @@ [res |-> Raise("DatabaseError")]
       ELSE \E rows \in DateRangeRows(store, user_id, start_date, end_date) :
                last' = call @@ [res |-> Ok(ConvertAll(rows))]

get_events_by_user_id(user_id, limit, offset, fail) ==
    LET call == [op |-> "get_events_by_user_id", user_id |-> user_id,
                 limit |-> limit, offset |-> offset, fail |-> fail]
    IN
    /\ UNCHANGED <<store, usedIds>>
    /\ IF fail
       THEN last' = call @@ [res |-> Ok(<<>>)]
       ELSE \E rows \in OrderByStartDesc({m \in store : m.user_id = user_id}) :
                last' = call @@ [res |-> Ok(ConvertAll(OffsetLimit(rows, limit, offset)))]

\* get_all_events takes no user_id; actor is the user whose request the
\* adapter's session serves.
get_all_events(actor, limit, offset, fail) ==
    LET call == [op |-> "get_all_events", user_id |-> actor,
                 limit |-> limit, offset |-> offset, fail |-> fail]
    IN
    /\ UNCHANGED <<store, usedIds>>
    /\ IF fail
       THEN last' = call @@ [res |-> Ok(<<>>)]
       ELSE \E rows \in OrderByStartDesc(store) :
                last' = call @@ [res |-> Ok(ConvertAll(OffsetLimit(rows, limit, offset)))]

\* get_event_by_event_id takes no user_id either (EventService.get_event
\* compares the owner afterwards).
get_event_by_event_id(actor, event_id, fail) ==
    LET found == {m \in store : m.event_id = event_id}
        call == [op |-> "get_event_by_event_id", user_id |-> actor,
                 event_id |-> event_id, fail |-> fail]
    IN
    /\ UNCHANGED <<store, usedIds>>
    /\ IF fail
       THEN last' = call @@ [res |-> Raise("DatabaseError")]
       ELSE IF found = {}
       THEN last' = call @@ [res |-> Raise("EventNotFoundError")]
       ELSE last' = call @@ [res |-> Ok(_convert_to_model(CHOOSE m \in found : TRUE))]

get_events_count(user_id, fail) ==
    LET count == Cardinality({m \in store : m.user_id = user_id})
    IN
    /\ UNCHANGED <<store, usedIds>>
    /\ last' = [op |-> "get_events_count", user_id |-> user_id, fail |-> fail,
                res |-> Ok(IF fail THEN 0 ELSE count)]

-----------------------------------------------------------------------------
(* Inputs of the store operations *)

MaxBatch == 2
MaxIdList == 2

SeqsUpTo(S, n) == UNION {[1..k -> S] : k \in 0..n}

BatchInputs ==
    SeqsUpTo({d \in EventCreateInputs :
                 d.title = "a" /\ d.duration \in {None, 1}}, MaxBatch)

WindowEnds(start_date) == {start_date + d : d \in Durations}

\* The adapter serves one call at a time: a call is made when the previous
\* one has been answered.
Idle == last.op = "none"

Return ==
    /\ ~Idle
    /\ last' = [op |-> "none"]
    /\ UNCHANGED <<store, usedIds>>
    /\ UNCHANGED flowVars

Next ==
    \/ Idle /\ \E u \in Users, d \in EventCreateInputs, f \in BOOLEAN :
           create_event(u, d, f) /\ UNCHANGED flowVars
    \/ Idle /\ \E u \in Users, ds \in BatchInputs, f \in BOOLEAN :
           create_events(u, ds, f) /\ UNCHANGED flowVars
    \/ Idle /\ \E id \in IdUniverse, u \in Users, d \in EventUpdateInputs, f \in BOOLEAN :
           update_event(id, u, d, f) /\ UNCHANGED flowVars
    \/ Idle /\ \E id \in IdUniverse, u \in Users, f \in BOOLEAN :
           delete_event(id, u, f) /\ UNCHANGED flowVars
    \/ Idle /\ \E ids \in SeqsUpTo(IdUniverse, MaxIdList), u \in Users, f \in BOOLEAN :
           delete_multiple_events(ids, u, f) /\ UNCHANGED flowVars
    \/ Idle /\ \E u \in Users, s \in StartDates, x \in IdUniverse \cup {NoneStr},
          f \in BOOLEAN :
           \E e \in WindowEnds(s) :
               check_event_conflict(u, s, e, x, f) /\ UNCHANGED flowVars
    \/ Idle /\ \E u \in Users, s \in StartDates \cup {None},
          e \in StartDates \cup {MaxTime + MaxDuration, None}, f \in BOOLEAN :
           get_events_by_date_range(u, s, e, f) /\ UNCHANGED flowVars
    \/ Idle /\ \E u \in Users, l \in Limits, o \in Limits, f \in BOOLEAN :
           get_events_by_user_id(u, l, o, f) /\ UNCHANGED flowVars
    \/ Idle /\ \E u \in Users, l \in Limits, o \in Limits, f \in BOOLEAN :
           get_all_events(u, l, o, f) /\ UNCHANGED flowVars
    \/ Idle /\ \E u \in Users, id \in IdUniverse, f \in BOOLEAN :
           get_event_by_event_id(u, id, f) /\ UNCHANGED flowVars
    \/ Idle /\ \E u \in Users, f \in BOOLEAN :
           get_events_count(u, f) /\ UNCHANGED flowVars
    \/ Return

Spec == Init /\ [][Next]_vars

-----------------------------------------------------------------------------
(* Part 2: one turn of the flow.  The text the model returns is abstracted   *)
(* to what json.loads makes of it; a JSON value is a record with its type t *)
(* and keys, the keys of an object or, for a string, the key words that     *)
(* occur in it (Python's "in" is a substring test on a string).             *)

MaxArray == 2

RouterStopAfterAttempt == 3
CreateStopAfterAttempt == 3
ListDateRangeStopAfterAttempt == 2
DeleteDateRangeStopAfterAttempt == 3
UpdateDateRangeStopAfterAttempt == 3
ListFilterStopAfterAttempt == 2
DeleteFilterStopAfterAttempt == 2
UpdateFilterStopAfterAttempt == 2

Unset == [set |-> FALSE]
Value(v) == [set |-> TRUE, v |-> v]

SystemMessage(content) == [type |-> "system", content |-> content]
HumanMessage(content) == [type |-> "human", content |-> content]
AIMessage(content) == [type |-> "ai", content |-> content]

\* "if messages and isinstance(messages[0], SystemMessage): messages[0] = ...
\*  else: messages.insert(0, ...)"
WithSystemPrompt(messages, prompt) ==
    IF Len(messages) > 0 /\ messages[1].type = "system"
    THEN [messages EXCEPT ![1] = SystemMessage(prompt)]
    ELSE <<SystemMessage(prompt)>> \o messages

\* What model.ainvoke can do: raise OpenAIError, or answer with a text that
\* is JSON or is not.
OpenAIError == [kind |-> "OpenAIError"]
NotJson == [kind |-> "text"]
Json(value) == [kind |-> "json", json |-> value]

json_loads(reply) ==
    IF reply.kind = "json" THEN Ok(reply.json) ELSE Raise("JSONDecodeError")

\* Python's "key in x": defined for a dict, a str and a list.
CanContain(x) == x.t \in {"dict", "str", "list"}
Contains(x, key) == x.t \in {"dict", "str"} /\ key \in x.keys

RouteValue(t, keys, route, message) ==
    [t |-> t, keys |-> keys, route |-> route, message |-> message]

RouterJson ==
    {RouteValue("dict", {"route"}, r, NoneStr) :
        r \in {"create", "update", "delete", "list", "chat"}}
    \cup {RouteValue("dict", {"message"}, NoneStr, "clarification"),
          RouteValue("dict", {"other"}, NoneStr, NoneStr),
          RouteValue("null", {}, NoneStr, NoneStr)}
    \cup {RouteValue("str", k, NoneStr, NoneStr) : k \in SUBSET {"route", "message"}}

RouterReplies == {OpenAIError, NotJson} \cup {Json(v) : v \in RouterJson}

\* One call of model.ainvoke: the node that made it, whether the provider
\* raised, and whether the answer was JSON.
ModelCall(node, reply) ==
    [node |-> node, error |-> reply = OpenAIError, json |-> reply.kind = "json"]

GenericError == "Bir hata olustu. Lutfen daha sonra tekrar deneyiniz."

\* The state flow.ainvoke starts from (process, lines 24-30).  A key no node
\* has written yet is Unset; is_success starts as bool().
FlowInput(user_id, text) ==
    [user_id |-> user_id,
     messages |-> <<HumanMessage(text)>>,
     update_messages |-> <<>>,
     route |-> Unset,
     create_event_data |-> Unset,
     create_conflict_event |-> Unset,
     list_date_range_data |-> Unset,
     list_date_range_filtered_events |-> Unset,
     list_final_filtered_events |-> Unset,
     delete_date_range_data |-> Unset,
     delete_date_range_filtered_events |-> Unset,
     delete_final_filtered_events |-> Unset,
     update_date_range_data |-> Unset,
     update_date_range_filtered_events |-> Unset,
     update_final_filtered_events |-> Unset,
     update_arguments |-> Unset,
     update_conflict_event |-> Unset,
     is_success |-> FALSE]

\* A merge that would raise the flag by itself.
merge_is_success_always_true(old, new) == TRUE

\* A merge that would keep the flag of the turn's start.
merge_is_success_keeps_old(old, new) == old

merge_is_success(old, new) == new

\* A node has run and the graph moves on.
Goto(node, next) ==
    /\ pc' = next
    /\ attempt' = 0
    /\ trace' = Append(trace, node)

\* A node has raised: the exception leaves flow.ainvoke.
Raises(node, exc) ==
    /\ pc' = "raised"
    /\ attempt' = 0
    /\ trace' = Append(trace, node)
    /\ result' = [kind |-> "raising", exc |-> exc]

\* A decorator that allows one attempt more than stop_after_attempt.
RetryOrGiveUpOneMore(node, stop_after_attempt) ==
    IF attempt + 1 < stop_after_attempt + 1
    THEN /\ attempt' = attempt + 1
         /\ UNCHANGED <<pc, trace, result>>
    ELSE Raises(node, "RetryError")

\* The retry decorator after an attempt that raised OpenAIError: another
\* attempt, or RetryError once stop_after_attempt is reached.
RetryOrGiveUp(node, stop_after_attempt) ==
    IF attempt + 1 < stop_after_attempt
    THEN /\ attempt' = attempt + 1
         /\ UNCHANGED <<pc, trace, result>>
    ELSE Raises(node, "RetryError")

\* A router that sends the route "create" to the list branch.
route_action_create_to_list(route) ==
    IF ~CanContain(route) THEN Raise("TypeError")
    ELSE IF Contains(route, "route")
    THEN IF route.t # "dict" THEN Raise("TypeError")
         ELSE Ok(CASE route.route = "create" -> "list_date_range_agent"
                   [] route.route = "update" -> "update_date_range_agent"
                   [] route.route = "delete" -> "delete_date_range_agent"
                   [] route.route = "list" -> "list_date_range_agent"
                   [] OTHER -> "router_message_handler")
    ELSE Ok("router_message_handler")

\* A router that sends a route without the key "route" into the create
\* branch.
route_action_message_to_create(route) ==
    IF ~CanContain(route) THEN Raise("TypeError")
    ELSE IF Contains(route, "route")
    THEN IF route.t # "dict" THEN Raise("TypeError")
         ELSE Ok(CASE route.route = "create" -> "create_agent"
                   [] route.route = "update" -> "update_date_range_agent"
                   [] route.route = "delete" -> "delete_date_range_agent"
                   [] route.route = "list" -> "list_date_range_agent"
                   [] OTHER -> "router_message_handler")
    ELSE Ok("create_agent")

route_action(route) ==
    IF ~CanContain(route) THEN Raise("TypeError")
    ELSE IF Contains(route, "route")
    THEN IF route.t # "dict" THEN Raise("TypeError")
         ELSE Ok(CASE route.route = "create" -> "create_agent"
                   [] route.route = "update" -> "update_date_range_agent"
                   [] route.route = "delete" -> "delete_date_range_agent"
                   [] route.route = "list" -> "list_date_range_agent"
                   [] OTHER -> "router_message_handler")
    ELSE Ok("router_message_handler")

router_agent ==
    /\ pc = "router_agent"
    /\ \E reply \in RouterReplies :
        LET messages == WithSystemPrompt(state.messages, "ROUTER_AGENT_PROMPT")
            route_data == json_loads(reply)
            route == IF route_data.tag = "ok" THEN route_data.value
                     ELSE RouteValue("dict", {"message"}, NoneStr, GenericError)
            next == route_action(route)
        IN
        /\ model_calls' = Append(model_calls, ModelCall("router_agent", reply))
        /\ IF reply = OpenAIError
           THEN /\ state' = [state EXCEPT !.messages = messages]
                /\ RetryOrGiveUp("router_agent", RouterStopAfterAttempt)
           ELSE /\ state' = [state EXCEPT !.messages = messages,
                                          !.route = Value(route),
                                          !.is_success =
                                              merge_is_success(@, state.is_success)]
                /\ IF next.tag = "ok"
                   THEN Goto("router_agent", next.value) /\ UNCHANGED result
                   ELSE Raises("router_agent", next.exc)
    /\ UNCHANGED storeVars

router_message_handler ==
    /\ pc = "router_message_handler"
    /\ LET route == state.route.v IN
       IF ~CanContain(route) \/ (Contains(route, "message") /\ route.t # "dict")
       THEN /\ Raises("router_message_handler", "TypeError")
            /\ UNCHANGED state
       ELSE LET message == IF Contains(route, "message") THEN route.message
                           ELSE "Bir hata olustu"
            IN /\ state' = [state EXCEPT
                               !.messages = Append(@, AIMessage(message))]
               /\ Goto("router_message_handler", "END")
               /\ UNCHANGED result
    /\ UNCHANGED <<model_calls, storeVars>>

-----------------------------------------------------------------------------
(* The list and delete branches *)

BadDate == -997

DateArgs(t, keys, startDate, endDate) ==
    [t |-> t, keys |-> keys, startDate |-> startDate, endDate |-> endDate]

NoArguments == DateArgs("null", {}, None, None)

ArgStartDates == StartDates \cup {None, BadDate}
ArgEndDates == {1, MaxTime + MaxDuration, None}

\* The "arguments" objects the date range prompts ask for: both dates are
\* optional, and a date can be null.
DateRangeArguments ==
    {a \in {DateArgs("dict", k, sd, ed) :
                k \in SUBSET {"startDate", "endDate"},
                sd \in ArgStartDates, ed \in ArgEndDates} :
        /\ ("startDate" \notin a.keys => a.startDate = None)
        /\ ("endDate" \notin a.keys => a.endDate = None)}

ExtractionValue(t, keys, arguments) ==
    [t |-> t, keys |-> keys, arguments |-> arguments]

MessageValue == ExtractionValue("dict", {"message"}, NoArguments)

OtherJson ==
    {MessageValue,
     ExtractionValue("dict", {"function"}, NoArguments),
     ExtractionValue("dict", {"function", "arguments"}, NoArguments),
     ExtractionValue("str", {"function", "arguments"}, NoArguments),
     ExtractionValue("str", {}, NoArguments),
     ExtractionValue("list", {}, NoArguments),
     ExtractionValue("null", {}, NoArguments)}

DateRangeJson ==
    {ExtractionValue("dict", {"function", "arguments"}, a) :
        a \in DateRangeArguments} \cup OtherJson

DateRangeReplies == {OpenAIError, NotJson} \cup {Json(v) : v \in DateRangeJson}

\* dict.get(key) and dict[key]
Get(d, key) == IF key \in d.keys THEN d[key] ELSE None
HasItem(d, key) == d.t = "dict" /\ key \in d.keys

\* list_action, delete_action, update_action, create_action: the test is
\* the same in the four of them.
HasFunctionAndArguments(data) ==
    IF ~CanContain(data) THEN Raise("TypeError")
    ELSE Ok(Contains(data, "function") /\ Contains(data, "arguments"))

\* list_date_range_agent, delete_date_range_agent, update_date_range_agent
\* and create_agent differ in the prompt, in the key they write and in the
\* message list they send: the call and json.loads sit in one try whose
\* except clause catches every exception, OpenAIError included.
ExtractionAgent(node, prompt, messages_key, data_key, replies, then, else) ==
    /\ \E reply \in replies :
        LET messages == WithSystemPrompt(state[messages_key], prompt)
            loaded == json_loads(reply)
            data == IF reply # OpenAIError /\ loaded.tag = "ok"
                    THEN loaded.value ELSE MessageValue
            test == HasFunctionAndArguments(data)
        IN
        /\ model_calls' = Append(model_calls, ModelCall(node, reply))
        /\ state' = [state EXCEPT ![messages_key] = messages,
                                  ![data_key] = Value(data),
                                  !.is_success =
                                      merge_is_success(@, state.is_success)]
        /\ IF test.tag = "ok"
           THEN /\ Goto(node, IF test.value THEN then ELSE else)
                /\ UNCHANGED result
           ELSE Raises(node, test.exc)
    /\ UNCHANGED storeVars

\* adapter.get_events_by_date_range as a node calls it: fail as in the
\* adapter; a string that is no date makes _ensure_datetime raise, which the
\* adapter turns into DatabaseError as well.
\* The record "last" keeps of a range query made by a node of the flow.
RangeCall(user_id, start_date, end_date, fail, r) ==
    [op |-> "get_events_by_date_range", user_id |-> user_id,
     start_date |-> start_date, end_date |-> end_date, fail |-> fail,
     res |-> r]

RangeQuery(user_id, start_date, end_date, fail) ==
    IF fail \/ start_date = BadDate \/ end_date = BadDate
    THEN {Raise("DatabaseError")}
    ELSE {Ok(ConvertAll(rows)) :
             rows \in DateRangeRows(store, user_id, start_date, end_date)}

FilterEntry(ok, id, title, startDate, endDate, duration, location) ==
    [ok |-> ok, id |-> id, title |-> title, startDate |-> startDate,
     endDate |-> endDate, duration |-> duration, location |-> location]

\* The entry that repeats an event of the prompt.
EntryOf(e) ==
    FilterEntry(TRUE, e.id, e.title, e.startDate, e.endDate, e.duration,
                e.location)

\* What an entry of the model's array can be: a candidate repeated, a
\* candidate with a field changed, an event that is no candidate, or
\* something the loop's try cannot make an Event of (ok = FALSE).
FilterEntries(candidates) ==
    {EntryOf(c) : c \in Range(candidates)}
    \cup {[EntryOf(c) EXCEPT !.title = "other"] : c \in Range(candidates)}
    \cup {FilterEntry(TRUE, "e9", "a", 0, 1, 1, NoneStr),
          FilterEntry(FALSE, NoneStr, NoneStr, None, None, None, NoneStr)}

FilterValue(t, items) == [t |-> t, items |-> items]

FilterReplies(candidates) ==
    {OpenAIError, NotJson, Json(FilterValue("dict", <<>>))}
    \cup {Json(FilterValue("list", a)) :
             a \in SeqsUpTo(FilterEntries(candidates), MaxArray)}

\* Event(id=..., title=..., ..., user_id=state['user_id'])
EventOfEntry(event_dict, user_id) ==
    [id |-> event_dict.id, title |-> event_dict.title,
     startDate |-> event_dict.startDate, endDate |-> event_dict.endDate,
     duration |-> event_dict.duration, location |-> event_dict.location,
     user_id |-> user_id]

\* The loop of the filter agents over the array: an entry that raises is
\* skipped.
ParsedEvents(items, user_id) ==
    LET good == SelectSeq(items, LAMBDA d : d.ok)
    IN [i \in 1..Len(good) |-> EventOfEntry(good[i], user_id)]

list_date_range_agent ==
    /\ pc = "list_date_range_agent"
    /\ ExtractionAgent("list_date_range_agent", "LIST_DATE_RANGE_AGENT_PROMPT",
                       "messages", "list_date_range_data", DateRangeReplies,
                       "list_event_by_date_range", "list_message_handler")

list_message_handler ==
    /\ pc = "list_message_handler"
    /\ state' = [state EXCEPT !.messages = Append(@, AIMessage(
           "Listelerken bir hata olustu. Lutfen daha sonra tekrar deneyiniz."))]
    /\ Goto("list_message_handler", "END")
    /\ UNCHANGED <<result, model_calls, storeVars>>

list_event_by_date_range ==
    /\ pc = "list_event_by_date_range"
    /\ LET data == state.list_date_range_data.v IN
       \E fail \in BOOLEAN :
       \E r \in IF data.t = "dict" /\ data.arguments.t = "dict"
                THEN RangeQuery(state.user_id,
                                Get(data.arguments, "startDate"),
                                Get(data.arguments, "endDate"), fail)
                ELSE {Raise("TypeError")} :
           /\ state' = [state EXCEPT
                  !.list_date_range_filtered_events =
                      Value(IF r.tag = "ok" THEN r.value ELSE <<>>),
                  !.is_success = merge_is_success(@, state.is_success)]
           /\ last' = IF data.t = "dict" /\ data.arguments.t = "dict"
                      THEN RangeCall(state.user_id,
                                     Get(data.arguments, "startDate"),
                                     Get(data.arguments, "endDate"), fail, r)
                      ELSE last
    /\ Goto("list_event_by_date_range", "list_filter_event_agent")
    /\ UNCHANGED <<result, model_calls, store, usedIds>>

list_filter_event_agent ==
    /\ pc = "list_filter_event_agent"
    /\ LET candidates == state.list_date_range_filtered_events.v IN
       IF candidates # <<>>
       THEN \E reply \in FilterReplies(candidates) :
            LET messages == WithSystemPrompt(state.messages,
                                             "LIST_FILTER_EVENT_AGENT_PROMPT")
                list_event_data == json_loads(reply)
            IN
            /\ model_calls' = Append(model_calls, ModelCall("list_filter_event_agent", reply))
            /\ IF reply = OpenAIError
               THEN /\ state' = [state EXCEPT !.messages = messages]
                    /\ RetryOrGiveUp("list_filter_event_agent",
                                     ListFilterStopAfterAttempt)
               ELSE /\ IF list_event_data.tag = "ok"
                          /\ list_event_data.value.t = "list"
                       THEN LET events == ParsedEvents(
                                    list_event_data.value.items, state.user_id)
                            IN state' = [state EXCEPT
                                   !.list_final_filtered_events = Value(events),
                                   !.messages = Append(messages, AIMessage(
                                       IF Len(events) = 0
                                       THEN "Herhangi bir etkinlik bulunamadi"
                                       ELSE "Etkinlikleri asagida gorebilirsiniz")),
                                   !.is_success = merge_is_success(@,
                                       IF Len(events) = 0 THEN state.is_success
                                       ELSE TRUE)]
                       ELSE state' = [state EXCEPT
                                !.messages = Append(messages,
                                                    AIMessage(GenericError)),
                                !.is_success =
                                    merge_is_success(@, state.is_success)]
                    /\ Goto("list_filter_event_agent", "END")
                    /\ UNCHANGED result
       ELSE /\ state' = [state EXCEPT
                   !.messages = Append(@, AIMessage(
                       "Listelemek istediginiz bir etkinlik bulunamadi")),
                   !.is_success = merge_is_success(@, state.is_success)]
            /\ Goto("list_filter_event_agent", "END")
            /\ UNCHANGED <<result, model_calls>>
    /\ UNCHANGED storeVars

delete_date_range_agent ==
    /\ pc = "delete_date_range_agent"
    /\ ExtractionAgent("delete_date_range_agent", "DELETE_DATE_RANGE_AGENT_PROMPT",
                       "messages", "delete_date_range_data", DateRangeReplies,
                       "delete_event_by_date_range", "delete_message_handler")

\* A handler that would delete the caller's events.
delete_message_handler_deleting ==
    /\ pc = "delete_message_handler"
    /\ state' = [state EXCEPT !.messages = Append(@, AIMessage(GenericError))]
    /\ Goto("delete_message_handler", "END")
    /\ store' = {m \in store : m.user_id # state.user_id}
    /\ UNCHANGED <<result, model_calls, usedIds, last>>

delete_message_handler ==
    /\ pc = "delete_message_handler"
    /\ state' = [state EXCEPT !.messages = Append(@, AIMessage(GenericError))]
    /\ Goto("delete_message_handler", "END")
    /\ UNCHANGED <<result, model_calls, storeVars>>

\* Unlike the list branch, the two dates are read with [...]: a missing key
\* raises KeyError inside the try.
delete_event_by_date_range ==
    /\ pc = "delete_event_by_date_range"
    /\ LET data == state.delete_date_range_data.v IN
       \E fail \in BOOLEAN :
       \E r \in IF /\ data.t = "dict"
                   /\ HasItem(data.arguments, "startDate")
                   /\ HasItem(data.arguments, "endDate")
                THEN RangeQuery(state.user_id, data.arguments.startDate,
                                data.arguments.endDate, fail)
                ELSE {Raise("KeyError")} :
           /\ state' = [state EXCEPT
                  !.delete_date_range_filtered_events =
                      Value(IF r.tag = "ok" THEN r.value ELSE <<>>),
                  !.is_success = merge_is_success(@, state.is_success)]
           /\ last' = IF r = Raise("KeyError") THEN last
                      ELSE RangeCall(state.user_id, data.arguments.startDate,
                                     data.arguments.endDate, fail, r)
    /\ Goto("delete_event_by_date_range", "delete_filter_event_agent")
    /\ UNCHANGED <<result, model_calls, store, usedIds>>

delete_filter_event_agent ==
    /\ pc = "delete_filter_event_agent"
    /\ LET candidates == state.delete_date_range_filtered_events.v IN
       IF candidates # <<>>
       THEN \E reply \in FilterReplies(candidates) :
            LET messages == WithSystemPrompt(state.messages,
                                             "DELETE_FILTER_EVENT_AGENT_PROMPT")
                delete_event_data == json_loads(reply)
            IN
            /\ model_calls' = Append(model_calls, ModelCall("delete_filter_event_agent", reply))
            /\ IF reply = OpenAIError
               THEN /\ state' = [state EXCEPT !.messages = messages]
                    /\ RetryOrGiveUp("delete_filter_event_agent",
                                     DeleteFilterStopAfterAttempt)
               ELSE /\ IF delete_event_data.tag = "ok"
                          /\ delete_event_data.value.t = "list"
                       THEN LET events == ParsedEvents(
                                    delete_event_data.value.items, state.user_id)
                            IN state' = [state EXCEPT
                                   !.delete_final_filtered_events = Value(events),
                                   !.messages = Append(messages, AIMessage(
                                       IF Len(events) = 0
                                       THEN "Silinecek herhangi bir etkinlik bulunamadi"
                                       ELSE "Silinmesini istediginiz etkinlikleri asagida gorebilirsiniz. Lutfen silmek istediginiz etkinligi seciniz.")),
                                   !.is_success = merge_is_success(@,
                                       IF Len(events) = 0 THEN state.is_success
                                       ELSE TRUE)]
                       ELSE state' = [state EXCEPT
                                !.messages = Append(messages,
                                                    AIMessage(GenericError)),
                                !.is_success =
                                    merge_is_success(@, state.is_success)]
                    /\ Goto("delete_filter_event_agent", "END")
                    /\ UNCHANGED result
       ELSE /\ state' = [state EXCEPT
                   !.messages = Append(@, AIMessage(
                       "Silinecek herhangi bir etkinlik bulunamadi")),
                   !.is_success = merge_is_success(@, state.is_success)]
            /\ Goto("delete_filter_event_agent", "END")
            /\ UNCHANGED <<result, model_calls>>
    /\ UNCHANGED storeVars

-----------------------------------------------------------------------------
(* The update branch.  Its nodes keep their messages under update_messages. *)

UpdateArgs(t, keys, startDate, duration) ==
    [t |-> t, keys |-> keys, startDate |-> startDate, duration |-> duration]

\* update_arguments: the new values; a title-only update has neither key.
UpdateArguments ==
    {UpdateArgs("dict", {"title"}, None, None),
     UpdateArgs("dict", {"duration"}, None, 1),
     UpdateArgs("dict", {"startDate"}, 0, None),
     UpdateArgs("dict", {"startDate"}, BadDate, None),
     UpdateArgs("dict", {"startDate", "duration"}, 0, 1),
     UpdateArgs("dict", {"startDate", "duration"}, 1, None),
     UpdateArgs("null", {}, None, None)}

UpdateExtractionArgs(t, keys, event_arguments, update_arguments) ==
    [t |-> t, keys |-> keys, event_arguments |-> event_arguments,
     update_arguments |-> update_arguments]

EventArguments ==
    {DateArgs("dict", {}, None, None),
     DateArgs("dict", {"startDate"}, 1, None),
     DateArgs("dict", {"startDate", "endDate"}, 0, MaxTime + MaxDuration),
     NoArguments}

UpdateJson ==
    {ExtractionValue("dict", {"function", "arguments"},
         UpdateExtractionArgs("dict", {"event_arguments", "update_arguments"},
                              ea, ua)) :
        ea \in EventArguments, ua \in UpdateArguments}
    \cup {ExtractionValue("dict", {"function", "arguments"},
              UpdateExtractionArgs("dict", {}, NoArguments,
                                   UpdateArgs("null", {}, None, None))),
          ExtractionValue("dict", {"function", "arguments"},
              UpdateExtractionArgs("null", {}, NoArguments,
                                   UpdateArgs("null", {}, None, None)))}
    \cup {ExtractionValue(v.t, v.keys,
              UpdateExtractionArgs("null", {}, NoArguments,
                                   UpdateArgs("null", {}, None, None))) :
             v \in OtherJson}

UpdateReplies == {OpenAIError, NotJson} \cup {Json(v) : v \in UpdateJson}

update_date_range_agent ==
    /\ pc = "update_date_range_agent"
    /\ ExtractionAgent("update_date_range_agent", "UPDATE_DATE_RANGE_AGENT_PROMPT",
                       "update_messages", "update_date_range_data", UpdateReplies,
                       "get_events_for_update", "update_message_handler")

update_message_handler ==
    /\ pc = "update_message_handler"
    /\ state' = [state EXCEPT
                    !.update_messages = Append(@, AIMessage(GenericError))]
    /\ Goto("update_message_handler", "END")
    /\ UNCHANGED <<result, model_calls, storeVars>>

\* arguments.get('event_arguments', {}): a missing key gives the empty dict.
get_events_for_update ==
    /\ pc = "get_events_for_update"
    /\ LET data == state.update_date_range_data.v
           event_args == IF "event_arguments" \in data.arguments.keys
                         THEN data.arguments.event_arguments
                         ELSE DateArgs("dict", {}, None, None)
       IN
       \E fail \in BOOLEAN :
       \E r \in IF /\ data.t = "dict"
                   /\ data.arguments.t = "dict"
                   /\ event_args.t = "dict"
                THEN RangeQuery(state.user_id, Get(event_args, "startDate"),
                                Get(event_args, "endDate"), fail)
                ELSE {Raise("TypeError")} :
           /\ state' = [state EXCEPT
                  !.update_date_range_filtered_events =
                      Value(IF r.tag = "ok" THEN r.value ELSE <<>>),
                  !.is_success = merge_is_success(@, state.is_success)]
           /\ last' = IF r = Raise("TypeError") THEN last
                      ELSE RangeCall(state.user_id,
                                     Get(event_args, "startDate"),
                                     Get(event_args, "endDate"), fail, r)
    /\ Goto("get_events_for_update", "update_filter_event_agent")
    /\ UNCHANGED <<result, model_calls, store, usedIds>>

\* The record "last" keeps of a conflict check.
ConflictCheckCall(user_id, start_date, end_date, exclude_event_id, fail, r) ==
    [op |-> "check_event_conflict", user_id |-> user_id,
     start_date |-> start_date, end_date |-> end_date,
     exclude_event_id |-> exclude_event_id, fail |-> fail, res |-> Ok(r)]

UpdateChooseMessage ==
    "Guncellenmesini istediginiz etkinlikleri asagida gorebilirsiniz. Lutfen guncellemek istediginiz etkinligi seciniz."

\* An update that would never look for conflicts.
NeedsConflictCheckNever(update_args) == FALSE

\* "if 'startDate' in update_args" (line 122)
NeedsConflictCheck(update_args) == Contains(update_args, "startDate")

update_filter_event_agent ==
    /\ pc = "update_filter_event_agent"
    /\ UNCHANGED <<store, usedIds>>
    /\ LET candidates == state.update_date_range_filtered_events.v
           Say(st, messages, content) ==
               [st EXCEPT !.update_messages = Append(messages, AIMessage(content)),
                          !.is_success = merge_is_success(@, st.is_success)]
       IN
       IF candidates # <<>>
       THEN \E reply \in FilterReplies(candidates) :
            LET messages == WithSystemPrompt(state.update_messages,
                                             "UPDATE_FILTER_EVENT_AGENT_PROMPT")
                update_event_data == json_loads(reply)
            IN
            /\ model_calls' = Append(model_calls, ModelCall("update_filter_event_agent", reply))
            /\ IF reply = OpenAIError
               THEN /\ state' = [state EXCEPT !.update_messages = messages]
                    /\ RetryOrGiveUp("update_filter_event_agent",
                                     UpdateFilterStopAfterAttempt)
                    /\ UNCHANGED last
               ELSE
               /\ Goto("update_filter_event_agent", "END")
               /\ UNCHANGED result
               /\ IF update_event_data.tag = "ok"
                     /\ update_event_data.value.t = "list"
                  THEN
                  LET events == ParsedEvents(update_event_data.value.items,
                                             state.user_id)
                      arguments == state.update_date_range_data.v.arguments
                      update_args ==
                          IF "update_arguments" \in arguments.keys
                          THEN arguments.update_arguments
                          ELSE UpdateArgs("dict", {}, None, None)
                      written == [state EXCEPT
                          !.update_final_filtered_events = Value(events),
                          !.update_arguments = Value(update_args)]
                  IN
                  IF Len(events) = 0
                  THEN /\ state' = Say(written, messages,
                            "Guncellenecek herhangi bir etkinlik bulunamadi")
                       /\ UNCHANGED last
                  ELSE IF ~CanContain(update_args)
                  THEN /\ state' = Say(written, messages, GenericError)
                       /\ UNCHANGED last
                  ELSE IF ~NeedsConflictCheck(update_args)
                  THEN /\ state' = [Say(written, messages, UpdateChooseMessage)
                                       EXCEPT !.is_success = TRUE]
                       /\ UNCHANGED last
                  ELSE IF \/ update_args.startDate \in {None, BadDate}
                          \/ ("duration" \in update_args.keys
                              /\ update_args.duration = None)
                  THEN /\ state' = Say(written, messages, GenericError)
                       /\ UNCHANGED last
                  ELSE
                  LET start_date == update_args.startDate
                      duration == IF "duration" \in update_args.keys
                                  THEN update_args.duration ELSE 0
                      end_date == start_date + duration
                      event_ids_to_exclude == [k \in 1..Len(events) |-> events[k].id]
                      exclude_event_id == IF Len(event_ids_to_exclude) = 1
                                          THEN event_ids_to_exclude[1]
                                          ELSE NoneStr
                  IN \E fail \in BOOLEAN :
                     \E conflict_event \in CheckEventConflictReturns(
                            store, state.user_id, start_date, end_date,
                            exclude_event_id, fail) :
                        /\ last' = ConflictCheckCall(state.user_id, start_date,
                                       end_date, exclude_event_id, fail,
                                       conflict_event)
                        /\ state' = [Say(written, messages, UpdateChooseMessage)
                               EXCEPT !.update_conflict_event = Value(conflict_event),
                                      !.is_success = TRUE]
                  ELSE /\ state' = Say(state, messages, GenericError)
                       /\ UNCHANGED last
       ELSE /\ state' = Say(state, state.update_messages,
                            "Guncellenecek herhangi bir etkinlik bulunamadi")
            /\ Goto("update_filter_event_agent", "END")
            /\ UNCHANGED <<result, model_calls, last>>

-----------------------------------------------------------------------------
(* The create branch *)

CreateArgs(t, keys, title, startDate, duration) ==
    [t |-> t, keys |-> keys, title |-> title, startDate |-> startDate,
     duration |-> duration]

NoCreateArgs == CreateArgs("null", {}, NoneStr, None, None)

CreateArguments ==
    {CreateArgs("dict", {"title", "startDate", "duration"}, "a", sd, d) :
        sd \in StartDates, d \in {0, 1, None}}
    \cup {CreateArgs("dict", {"title", "startDate"}, "a", 0, None),
          CreateArgs("dict", {"title", "startDate"}, "a", BadDate, None),
          CreateArgs("dict", {"title"}, "a", None, None),
          NoCreateArgs}

CreateJson ==
    {ExtractionValue("dict", {"function", "arguments"}, a) : a \in CreateArguments}
    \cup {ExtractionValue("dict", {"arguments"},
                          CreateArgs("dict", {"title", "startDate"}, "a", 0, None))}
    \cup {ExtractionValue(v.t, v.keys, NoCreateArgs) : v \in OtherJson}

CreateReplies == {OpenAIError, NotJson} \cup {Json(v) : v \in CreateJson}

create_agent ==
    /\ pc = "create_agent"
    /\ ExtractionAgent("create_agent", "CREATE_EVENT_AGENT_PROMPT",
                       "messages", "create_event_data", CreateReplies,
                       "check_event_conflict", "create_message_handler")

\* create_event_data.get('message', ...): only a dict has get.
create_message_handler ==
    /\ pc = "create_message_handler"
    /\ LET data == state.create_event_data.v IN
       IF data.t # "dict"
       THEN /\ Raises("create_message_handler", "AttributeError")
            /\ UNCHANGED state
       ELSE /\ state' = [state EXCEPT !.messages = Append(@, AIMessage(
                   IF "message" \in data.keys
                   THEN "create_event_data['message']" ELSE GenericError))]
            /\ Goto("create_message_handler", "END")
            /\ UNCHANGED result
    /\ UNCHANGED <<model_calls, storeVars>>

\* create_conflict_event = True marks an error.
ErrorFlag == [kind |-> "True"]

create_conflict_action(conflict_event) ==
    IF conflict_event = NoEvent THEN "END"
    ELSE "create_conflict_message_handler"

\* The node check_event_conflict of create_agent.py.
check_event_conflict_node ==
    /\ pc = "check_event_conflict"
    /\ UNCHANGED <<store, usedIds, model_calls, result>>
    /\ LET data == state.create_event_data.v
           arguments == data.arguments
       IN
       IF \/ data.t # "dict"
          \/ arguments.t # "dict"
          \/ "startDate" \notin arguments.keys
          \/ arguments.startDate \in {None, BadDate}
          \/ ("duration" \in arguments.keys /\ arguments.duration = None)
       THEN /\ state' = [state EXCEPT
                   !.create_conflict_event = Value(ErrorFlag),
                   !.is_success = merge_is_success(@, state.is_success)]
            /\ Goto("check_event_conflict", create_conflict_action(ErrorFlag))
            /\ UNCHANGED last
       ELSE LET start_date == arguments.startDate
                duration == IF "duration" \in arguments.keys
                            THEN arguments.duration ELSE 0
                end_date == start_date + duration
            IN \E fail \in BOOLEAN :
               \E conflict_event \in CheckEventConflictReturns(
                      store, state.user_id, start_date, end_date, NoneStr, fail) :
                  /\ last' = ConflictCheckCall(state.user_id, start_date,
                                 end_date, NoneStr, fail, conflict_event)
                  /\ state' = IF conflict_event = NoEvent
                              THEN [state EXCEPT
                                  !.create_conflict_event = Value(conflict_event),
                                  !.is_success = merge_is_success(@, TRUE),
                                  !.messages = Append(@, AIMessage(
                                      "Asagidaki etkinligi olusturmak istediginize emin misiniz?"))]
                              ELSE [state EXCEPT
                                  !.create_conflict_event = Value(conflict_event),
                                  !.is_success =
                                      merge_is_success(@, state.is_success)]
                  /\ Goto("check_event_conflict",
                          create_conflict_action(conflict_event))

\* strftime("%d.%m.%Y %H:%M") of a date
FormatDate(d) == ToString(d)

create_conflict_message_handler ==
    /\ pc = "create_conflict_message_handler"
    /\ LET conflict_event == state.create_conflict_event.v
           message ==
               IF conflict_event = ErrorFlag THEN GenericError
               ELSE "Bu zaman araliginda cakisan bir etkinliginiz var: '"
                    \o conflict_event.title \o "' ("
                    \o FormatDate(conflict_event.startDate) \o " - "
                    \o FormatDate(conflict_event.endDate) \o ")"
       IN state' = [state EXCEPT !.messages = Append(@, AIMessage(message))]
    /\ Goto("create_conflict_message_handler", "END")
    /\ UNCHANGED <<result, model_calls, storeVars>>

-----------------------------------------------------------------------------
(* AssistantService.process around the flow *)

\* What process makes of the state flow.ainvoke returns (lines 31-72); an
\* exception that left the flow is raised again (lines 73-77).
process ==
    /\ pc \in {"END", "raised"}
    /\ pc' = "done"
    /\ IF pc = "raised"
       THEN result' = [kind |-> "exception", exc |-> result.exc]
       ELSE
       LET response == state
           route == IF response.route.v.t = "dict"
                       /\ "route" \in response.route.v.keys
                    THEN response.route.v.route ELSE NoneStr
           message == response.messages[Len(response.messages)].content
       IN
       IF ~response.is_success
       THEN result' = [kind |-> "message", message |-> message]
       ELSE IF route = "create"
       THEN \* "for event_data in create_event_data" walks the keys of the
            \* dict, and a str has no get
            result' = [kind |-> "exception", exc |-> "AttributeError"]
       ELSE IF route = "update"
       THEN IF response.update_conflict_event.set
            THEN result' = [kind |-> "update", message |-> message,
                            events |-> response.update_final_filtered_events.v,
                            update_arguments |-> response.update_arguments.v,
                            update_conflict_event |->
                                response.update_conflict_event.v]
            ELSE result' = [kind |-> "exception", exc |-> "KeyError"]
       ELSE IF route = "delete"
       THEN result' = [kind |-> "delete", message |-> message,
                       events |-> response.delete_final_filtered_events.v]
       ELSE IF route = "list"
       THEN result' = [kind |-> "list", message |-> message,
                       events |-> response.list_final_filtered_events.v]
       ELSE result' = [kind |-> "message", message |-> message]
    /\ UNCHANGED <<state, attempt, model_calls, trace, storeVars>>

\* The stores a turn can find: events the adapter can have created.
FlowRows ==
    {EventModel("e1", 1, "a", 0, 1, NoneStr),
     EventModel("e2", 1, "b", 1, 2, NoneStr),
     EventModel("e2", 2, "b", 0, 2, NoneStr)}

FlowStores ==
    {S \in SUBSET FlowRows :
        \A m, n \in S : m.event_id = n.event_id => m = n}

FlowInit ==
    /\ store \in FlowStores
    /\ usedIds = {m.event_id : m \in store}
    /\ last = [op |-> "none"]
    /\ pc = "router_agent"
    /\ state \in {FlowInput(user_id, "text") : user_id \in Users}
    /\ attempt = 0
    /\ model_calls = <<>>
    /\ trace = <<>>
    /\ result = [kind |-> "none"]

FlowNext ==
    \/ router_agent
    \/ router_message_handler
    \/ create_agent
    \/ create_message_handler
    \/ check_event_conflict_node
    \/ create_conflict_message_handler
    \/ list_date_range_agent
    \/ list_message_handler
    \/ list_event_by_date_range
    \/ list_filter_event_agent
    \/ delete_date_range_agent
    \/ delete_message_handler
    \/ delete_event_by_date_range
    \/ delete_filter_event_agent
    \/ update_date_range_agent
    \/ update_message_handler
    \/ get_events_for_update
    \/ update_filter_event_agent
    \/ process

FlowSpec == FlowInit /\ [][FlowNext]_vars

-----------------------------------------------------------------------------
(* Part 3: EventService.create_event_with_conflict_check, two requests in  *)
(* flight.  Each request awaits the conflict check and then the insert;    *)
(* another request can run between the two awaits.  Here pc, state and     *)
(* result hold one entry per request, and trace logs the awaits that       *)
(* completed.                                                              *)

Requests == {"r1", "r2"}

\* The request bodies: EventCreate, with any duration the model accepts.
ServiceInputs ==
    [title : {"a"}, startDate : StartDates,
     duration : Durations \cup {None}, location : Locations]

\* "duration = event_data.duration or 0"
DurationOrZero(duration) == IF duration = None THEN 0 ELSE duration

ServiceStep(r, step, fail) == [request |-> r, step |-> step, fail |-> fail]

\* Lines 40-52: the conflict check, and HTTP 409 when it returns an event.
service_check_event_conflict(r) ==
    /\ pc[r] = "check_event_conflict"
    /\ LET user_id == state[r].user_id
           event_data == state[r].event_data
           start_date == event_data.startDate
           duration == DurationOrZero(event_data.duration)
           end_date == start_date + duration
       IN \E fail \in BOOLEAN :
          \E conflict_event \in CheckEventConflictReturns(
                 store, user_id, start_date, end_date, NoneStr, fail) :
             /\ last' = ConflictCheckCall(user_id, start_date, end_date,
                                          NoneStr, fail, conflict_event)
             /\ state' = [state EXCEPT
                              ![r].conflict_event = Value(conflict_event)]
             /\ trace' = Append(trace,
                                ServiceStep(r, "check_event_conflict", fail))
             /\ IF conflict_event # NoEvent
                THEN /\ pc' = [pc EXCEPT ![r] = "done"]
                     /\ result' = [result EXCEPT
                                       ![r] = Raise("HTTPException 409")]
                ELSE /\ pc' = [pc EXCEPT ![r] = "create_event"]
                     /\ UNCHANGED result
    /\ UNCHANGED <<store, usedIds, attempt, model_calls>>

\* Lines 55-73: the insert; DatabaseError becomes HTTP 500.
service_create_event(r) ==
    /\ pc[r] = "create_event"
    /\ \E fail \in BOOLEAN :
          /\ create_event(state[r].user_id, state[r].event_data, fail)
          /\ trace' = Append(trace, ServiceStep(r, "create_event", fail))
    /\ pc' = [pc EXCEPT ![r] = "done"]
    /\ result' = [result EXCEPT
                      ![r] = IF last'.res.tag = "ok" THEN last'.res
                             ELSE Raise("HTTPException 500")]
    /\ UNCHANGED <<state, attempt, model_calls>>

ServiceInit ==
    /\ store = {}
    /\ usedIds = {}
    /\ last = [op |-> "none"]
    /\ pc = [r \in Requests |-> "check_event_conflict"]
    /\ state \in [Requests -> [user_id : Users, event_data : ServiceInputs,
                               conflict_event : {Unset}]]
    /\ attempt = 0
    /\ model_calls = <<>>
    /\ trace = <<>>
    /\ result = [r \in Requests |-> [kind |-> "none"]]

ServiceNext ==
    \/ \E r \in Requests : service_check_event_conflict(r)
    \/ \E r \in Requests : service_create_event(r)

ServiceSpec == ServiceInit /\ [][ServiceNext]_vars

-----------------------------------------------------------------------------
(* Properties of the event store *)

\* The definition of a conflict the specification gives (section 4.5).
Overlaps(m, start_date, end_date) ==
    \/ (m.startDate < end_date /\ m.endDate > start_date)
    \/ (m.startDate = start_date /\ m.endDate = end_date)

Conflicting(S, user_id, start_date, end_date, exclude_event_id) ==
    {m \in S : /\ m.user_id = user_id
               /\ m.event_id # exclude_event_id
               /\ Overlaps(m, start_date, end_date)}

\* C2: check_event_conflict returns an event iff the store holds an event of
\* the owner, other than the excluded one, that overlaps or equals the
\* window; the event returned is one of these.
C2_ConflictIff ==
    last.op = "check_event_conflict" =>
        LET hits == Conflicting(store, last.user_id, last.start_date,
                                last.end_date, last.exclude_event_id)
        IN IF hits = {}
           THEN last.res.value = NoEvent
           ELSE last.res.value \in {_convert_to_model(m) : m \in hits}

\* C3: the verdict is symmetric.  When range B is checked against a store
\* holding only event A (same owner, nothing excluded), a conflict is reported
\* iff checking A's range against a store holding only B reports one.
C3_ConflictSymmetric ==
    (/\ last.op = "check_event_conflict"
     /\ last.exclude_event_id = NoneStr
     /\ Cardinality(store) = 1)
    => LET A == CHOOSE m \in store : TRUE
           B == EventModel("e9", last.user_id, "b", last.start_date,
                           last.end_date, NoneStr)
       IN A.user_id = last.user_id =>
          ((last.res.value # NoEvent)
           <=> (CheckEventConflictReturns({B}, A.user_id, A.startDate, A.endDate,
                                          NoneStr, last.fail) # {NoEvent}))

\* A zero-width range checked against the identical stored range: reported.
C3_Witness ==
    /\ last.op = "check_event_conflict"
    /\ last.exclude_event_id = NoneStr
    /\ Cardinality(store) = 1
    /\ last.start_date = last.end_date
    /\ last.res.value # NoEvent

\* C4: with exclude_event_id = X.id the check never returns X, and returns
\* None when X is the only event of the owner overlapping the window.
C4_ExcludedNeverReturned ==
    (last.op = "check_event_conflict" /\ last.exclude_event_id # NoneStr)
    => /\ last.res.value # NoEvent => last.res.value.id # last.exclude_event_id
       /\ (\A m \in Conflicting(store, last.user_id, last.start_date,
                                 last.end_date, NoneStr) :
               m.event_id = last.exclude_event_id)
          => last.res.value = NoEvent

\* The excluded event is in the store, overlaps the window, and the answer
\* of a query that did not fail is None.
C4_Witness ==
    /\ last.op = "check_event_conflict"
    /\ ~last.fail
    /\ \E m \in store : /\ m.event_id = last.exclude_event_id
                        /\ m.user_id = last.user_id
                        /\ Overlaps(m, last.start_date, last.end_date)
    /\ last.res.value = NoEvent

\* C7: delete_multiple_events is all-or-nothing.  If some id names no event
\* of the caller it returns False and the store is unchanged; if every id
\* names one it returns True and removes exactly those events.
C7_AllOrNothing ==
    [][(last.op = "none" /\ last'.op = "delete_multiple_events" /\ ~last'.fail)
       => LET ids == last'.event_ids
              owned(id) == {m \in store : m.event_id = id
                                          /\ m.user_id = last'.user_id}
          IN IF \A i \in 1..Len(ids) : owned(ids[i]) # {}
             THEN /\ last'.res.value = TRUE
                  /\ store' = store \ UNION {owned(ids[i]) : i \in 1..Len(ids)}
             ELSE /\ last'.res.value = FALSE
                  /\ store' = store]_vars

\* The row update_event wrote.
StoredRow(event_id) == CHOOSE m \in store : m.event_id = event_id

UpdateDone == last.op = "update_event" /\ last.res.tag = "ok"

\* C8: as the claim states it: a zero duration leaves the stored endDate null.
C8_DurationZeroClearsEndDate ==
    (UpdateDone /\ last.event_data.duration = 0)
    => StoredRow(last.event_id).endDate = None

\* C8, amended: update_event with duration 0 sets the stored endDate to the
\* event's start (the new startDate if one is supplied, else the stored
\* one); it is never null.
C8_DurationZeroEndIsStart ==
    (UpdateDone /\ last.event_data.duration = 0)
    => /\ StoredRow(last.event_id).endDate = StoredRow(last.event_id).startDate
       /\ StoredRow(last.event_id).endDate # None
       /\ StoredRow(last.event_id).startDate =
              IF last.event_data.startDate # None
              THEN last.event_data.startDate ELSE last.before.startDate

\* An event that lasted some minutes has been updated with duration 0.
C8_Witness ==
    /\ UpdateDone
    /\ last.event_data.duration = 0
    /\ last.before.endDate > last.before.startDate

\* C9: every stored event ends no earlier than it starts.
C9_EndNotBeforeStart ==
    \A m \in store : m.endDate >= m.startDate

\* The events an adapter call handed back.
ReturnedEvents(l) ==
    IF l.op = "none" \/ l.res.tag # "ok" THEN {}
    ELSE IF l.op \in {"create_event", "update_event", "get_event_by_event_id"}
    THEN {l.res.value}
    ELSE IF l.op = "check_event_conflict"
    THEN {l.res.value} \ {NoEvent}
    ELSE IF l.op \in {"create_events", "get_events_by_date_range",
                      "get_events_by_user_id", "get_all_events"}
    THEN Range(l.res.value)
    ELSE {}

\* C10: an operation made on behalf of a user hands back only that user's
\* events and changes only that user's rows.
C10_OwnerIsolation ==
    /\ [](\A e \in ReturnedEvents(last) : e.user_id = last.user_id)
    /\ [][\A m \in (store \ store') \cup (store' \ store) :
             m.user_id = last'.user_id]_vars

-----------------------------------------------------------------------------
(* Properties of the flow *)

ValidRoutes == {"create", "update", "delete", "list"}

\* The router stage has yielded no valid route: the text was no JSON (the
\* except clause then writes a message object), or JSON that is no object
\* naming one of the four routes.
NoValidRoute ==
    /\ state.route.set
    /\ ~(/\ state.route.v.t = "dict"
         /\ "route" \in state.route.v.keys
         /\ state.route.v.route \in ValidRoutes)

LastOf(messages) == messages[Len(messages)]

\* C1: a turn whose router stage yields no valid route ends at
\* router_message_handler; process returns a message and nothing else,
\* success stays false, and the store is not changed.
C1_NoRouteEndsWithMessage ==
    /\ []((pc = "done" /\ NoValidRoute)
          => /\ trace = <<"router_agent", "router_message_handler">>
             /\ result.kind = "message"
             /\ result.message = LastOf(state.messages).content
             /\ LastOf(state.messages).type = "ai"
             /\ ~state.is_success)
    /\ [][store' = store]_vars

FilterNodes ==
    {"list_filter_event_agent", "delete_filter_event_agent",
     "update_filter_event_agent"}

CandidatesOf(node) ==
    CASE node = "list_filter_event_agent" ->
             state.list_date_range_filtered_events
      [] node = "delete_filter_event_agent" ->
             state.delete_date_range_filtered_events
      [] node = "update_filter_event_agent" ->
             state.update_date_range_filtered_events

FinalOf(node) ==
    CASE node = "list_filter_event_agent" -> state.list_final_filtered_events
      [] node = "delete_filter_event_agent" -> state.delete_final_filtered_events
      [] node = "update_filter_event_agent" -> state.update_final_filtered_events

\* C5: the final filtered list of a branch holds only events of the
\* candidate list of the same turn, with the candidate's id and fields.
C5_FinalSubsetOfCandidates ==
    \A node \in FilterNodes :
        FinalOf(node).set
        => Range(FinalOf(node).v) \subseteq Range(CandidatesOf(node).v)

\* The filter stage of a branch has run on an empty candidate list.
FilteredNothing(node) ==
    /\ Len(trace) > 0
    /\ trace[Len(trace)] = node
    /\ CandidatesOf(node).v = <<>>

\* C6: with an empty candidate list the filter stage calls no model, the
\* turn ends, the last of the turn's messages is the branch's nothing-found
\* message, and success is not set.
C6_EmptyCandidatesShortCircuit ==
    \A node \in FilterNodes :
        FilteredNothing(node)
        => /\ \A i \in 1..Len(model_calls) : model_calls[i].node # node
           /\ pc \in {"END", "done"}
           /\ LastOf(state.messages) \in
                  {AIMessage("Listelemek istediginiz bir etkinlik bulunamadi"),
                   AIMessage("Silinecek herhangi bir etkinlik bulunamadi"),
                   AIMessage("Guncellenecek herhangi bir etkinlik bulunamadi")}
           /\ ~state.is_success
           /\ (pc = "done" => /\ result.kind = "message"
                              /\ result.message = LastOf(state.messages).content)

\* The nodes that set is_success to True.
SuccessNodes ==
    {"check_event_conflict", "list_filter_event_agent",
     "delete_filter_event_agent", "update_filter_event_agent"}

\* C11: the success flag of a turn is false when the turn starts, is true
\* only after a node has set it, and once true it is never false again in
\* that turn, whatever node or merge step follows.
C11_SuccessMonotonic ==
    /\ [](trace = <<>> => ~state.is_success)
    /\ [](state.is_success => \E i \in 1..Len(trace) : trace[i] \in SuccessNodes)
    /\ [][state.is_success => state'.is_success]_vars

\* A turn whose flag was set has been read by process: the list result.
C11_Witness ==
    /\ pc = "done"
    /\ state.is_success
    /\ result.kind = "list"
    /\ Len(trace) = 4

\* The nodes of each branch, as create_flow adds them.
BranchNodes(branch) ==
    CASE branch = "create" ->
             {"create_agent", "create_message_handler", "check_event_conflict",
              "create_conflict_message_handler"}
      [] branch = "list" ->
             {"list_date_range_agent", "list_message_handler",
              "list_event_by_date_range", "list_filter_event_agent"}
      [] branch = "delete" ->
             {"delete_date_range_agent", "delete_message_handler",
              "delete_event_by_date_range", "delete_filter_event_agent"}
      [] branch = "update" ->
             {"update_date_range_agent", "update_message_handler",
              "get_events_for_update", "update_filter_event_agent"}

\* The node a branch starts with.
EntryNode(branch) ==
    CASE branch = "create" -> "create_agent"
      [] branch = "list" -> "list_date_range_agent"
      [] branch = "delete" -> "delete_date_range_agent"
      [] branch = "update" -> "update_date_range_agent"

\* The route the router stage classified, if it is one of the four.
ClassifiedRoute ==
    IF state.route.set /\ ~NoValidRoute THEN state.route.v.route ELSE NoneStr

\* C12: the nodes of a turn belong to at most one branch, and that branch
\* is the one the classified route names: a node of a branch runs only under
\* that route, and under a valid route the node after the router is the
\* entry node of its branch.
C12_OneBranchPerTurn ==
    /\ \A branch \in ValidRoutes :
           (\E i \in 1..Len(trace) : trace[i] \in BranchNodes(branch))
           => ClassifiedRoute = branch
    /\ (ClassifiedRoute # NoneStr /\ Len(trace) >= 2)
       => trace[2] = EntryNode(ClassifiedRoute)
    /\ (ClassifiedRoute # NoneStr /\ Len(trace) = 1)
       => pc = EntryNode(ClassifiedRoute)

\* An update turn that ran its three nodes.
C12_Witness ==
    /\ pc = "done"
    /\ ClassifiedRoute = "update"
    /\ trace = <<"router_agent", "update_date_range_agent",
                 "get_events_for_update", "update_filter_event_agent">>

\* The extraction result of a branch, and the nodes that follow it.
ExtractionDataOf(branch) ==
    CASE branch = "create" -> state.create_event_data
      [] branch = "list" -> state.list_date_range_data
      [] branch = "delete" -> state.delete_date_range_data
      [] branch = "update" -> state.update_date_range_data

ProcessingNode(branch) ==
    CASE branch = "create" -> "check_event_conflict"
      [] branch = "list" -> "list_event_by_date_range"
      [] branch = "delete" -> "delete_event_by_date_range"
      [] branch = "update" -> "get_events_for_update"

MessageHandler(branch) ==
    CASE branch = "create" -> "create_message_handler"
      [] branch = "list" -> "list_message_handler"
      [] branch = "delete" -> "delete_message_handler"
      [] branch = "update" -> "update_message_handler"

\* A successful extraction: an object with "function" and "arguments".
WellFormedExtraction(data) ==
    data.t = "dict" /\ {"function", "arguments"} \subseteq data.keys

\* The shapes an extraction result has when the model follows its prompt:
\* the function call object, the message object (which is also what the
\* except clause writes), and in the create branch the list of events.
PromptShape(branch, data) ==
    \/ WellFormedExtraction(data)
    \/ (data.t = "dict" /\ data.keys = {"message"})
    \/ (branch = "create" /\ data.t = "list")

\* C13: after the extraction stage of a branch the next node is the
\* processing node iff the result is an object with "function" and
\* "arguments", otherwise the message handler; the message handler appends
\* a message to the turn's messages and ends the turn.  Stated for the
\* result shapes the prompts ask for.
C13_ExtractionTransition ==
    \A branch \in ValidRoutes :
        /\ (/\ Len(trace) = 2
            /\ trace[2] = EntryNode(branch)
            /\ PromptShape(branch, ExtractionDataOf(branch).v))
           => pc = IF WellFormedExtraction(ExtractionDataOf(branch).v)
                   THEN ProcessingNode(branch) ELSE MessageHandler(branch)
        /\ (/\ Len(trace) = 3
            /\ trace[3] = MessageHandler(branch)
            /\ PromptShape(branch, ExtractionDataOf(branch).v))
           => /\ pc \in {"END", "done"}
              /\ LastOf(state.messages).type = "ai"

\* C14: every turn handed to process ends with a result that carries a
\* message the flow produced; no exception leaves process.
C14_TurnReturnsMessage ==
    pc = "done"
    => /\ result.kind # "exception"
       /\ result.message = LastOf(state.messages).content
       /\ LastOf(state.messages).type = "ai"

\* The stages that call the model, and stop_after_attempt of each decorator.
ExtractionStages ==
    {"create_agent", "list_date_range_agent", "delete_date_range_agent",
     "update_date_range_agent"}

ModelStages == {"router_agent"} \cup ExtractionStages \cup FilterNodes

StopAfterAttempt(stage) ==
    CASE stage = "router_agent" -> RouterStopAfterAttempt
      [] stage = "create_agent" -> CreateStopAfterAttempt
      [] stage = "list_date_range_agent" -> ListDateRangeStopAfterAttempt
      [] stage = "delete_date_range_agent" -> DeleteDateRangeStopAfterAttempt
      [] stage = "update_date_range_agent" -> UpdateDateRangeStopAfterAttempt
      [] stage = "list_filter_event_agent" -> ListFilterStopAfterAttempt
      [] stage = "delete_filter_event_agent" -> DeleteFilterStopAfterAttempt
      [] stage = "update_filter_event_agent" -> UpdateFilterStopAfterAttempt

\* The number of model calls a stage has made in the turn.
CallsOf(stage) ==
    Cardinality({i \in 1..Len(model_calls) : model_calls[i].node = stage})

\* C15, as the claim states it: the limit is 3 for the classifier and for
\* each of the four extraction stages and 2 for each filter stage, and no
\* stage calls the model more often than its limit.
C15_LimitsAsStated ==
    /\ \A stage \in {"router_agent"} \cup ExtractionStages :
           StopAfterAttempt(stage) = 3
    /\ \A stage \in FilterNodes : StopAfterAttempt(stage) = 2
    /\ \A stage \in ModelStages : CallsOf(stage) <= StopAfterAttempt(stage)

\* C15, amended: the limit is 3 for the classifier and for the create,
\* delete and update extraction stages, 2 for the list extraction stage and
\* for each filter stage, and no stage calls the model more often than its
\* limit.
C15_AttemptsBounded ==
    /\ \A stage \in {"router_agent", "create_agent", "delete_date_range_agent",
                     "update_date_range_agent"} : StopAfterAttempt(stage) = 3
    /\ \A stage \in {"list_date_range_agent"} \cup FilterNodes :
           StopAfterAttempt(stage) = 2
    /\ \A stage \in ModelStages : CallsOf(stage) <= StopAfterAttempt(stage)

\* The classifier needed its third attempt and a filter stage used both of
\* its attempts.
C15_Witness ==
    /\ CallsOf("router_agent") = RouterStopAfterAttempt
    /\ \E stage \in FilterNodes : CallsOf(stage) = StopAfterAttempt(stage)

\* The last model call a stage made in the turn.
LastCallOf(stage) ==
    LET idx == {i \in 1..Len(model_calls) : model_calls[i].node = stage}
    IN model_calls[CHOOSE i \in idx : \A j \in idx : j <= i]

\* C16: a model call that ended in a provider error is followed by another
\* attempt of the same stage unless the stage has used all its attempts;
\* the stage gives up, and the turn goes on to its generic message, only
\* after the last attempt.
C16_ErrorIsRetried ==
    \A stage \in ModelStages :
        (CallsOf(stage) > 0 /\ LastCallOf(stage).error)
        => \/ pc = stage /\ attempt = CallsOf(stage)
           \/ CallsOf(stage) = StopAfterAttempt(stage)

\* The classifier's latest answer was text that json.loads rejects.
RouterUnparseable ==
    /\ CallsOf("router_agent") > 0
    /\ ~LastCallOf("router_agent").error
    /\ ~LastCallOf("router_agent").json

\* C17: when the classifier's answer is no JSON the model is not called
\* again in the turn, the route is the message result, and the next node is
\* router_message_handler, after which the turn ends with that message.
C17_UnparseableNotRetried ==
    RouterUnparseable
    => /\ model_calls[Len(model_calls)] = LastCallOf("router_agent")
       /\ state.route = Value(RouteValue("dict", {"message"}, NoneStr,
                                         GenericError))
       /\ \/ trace = <<"router_agent">> /\ pc = "router_message_handler"
          \/ /\ trace = <<"router_agent", "router_message_handler">>
             /\ pc \in {"END", "done"}
             /\ LastOf(state.messages) = AIMessage(GenericError)
       /\ pc = "done" => result = [kind |-> "message", message |-> GenericError]

\* The classifier failed once, then answered with text that is no JSON, and
\* the turn has ended with the generic message.
C17_Witness ==
    /\ RouterUnparseable
    /\ CallsOf("router_agent") = 2
    /\ pc = "done"
    /\ result.kind = "message"

\* The conflict check of the create branch has run and its store query
\* failed.
CreateCheckFailed ==
    /\ Len(trace) = 3
    /\ trace[3] = "check_event_conflict"
    /\ last.op = "check_event_conflict"
    /\ last.fail

\* C18: a conflict check whose store query failed is told apart from "no
\* conflict": the create branch does not record "no conflict" and does not
\* mark the turn successful.
C18_CheckFailureIsDistinct ==
    CreateCheckFailed
    => /\ state.create_conflict_event.v # NoEvent
       /\ ~state.is_success

\* The position in the log of a request's await, 0 if it has not completed.
StepIndex(r, step) ==
    IF \E i \in 1..Len(trace) : trace[i].request = r /\ trace[i].step = step
    THEN CHOOSE i \in 1..Len(trace) :
             trace[i].request = r /\ trace[i].step = step
    ELSE 0

\* Both requests were answered with the event they created.
BothInserted == \A r \in Requests : pc[r] = "done" /\ result[r].tag = "ok"

\* The two created events belong to one owner and conflict with each other.
CreatedEventsOverlap ==
    /\ result["r1"].value.user_id = result["r2"].value.user_id
    /\ Overlaps(result["r1"].value, result["r2"].value.startDate,
                result["r2"].value.endDate)

\* C19: the check and the insert of create_event_with_conflict_check are
\* two separate store interactions.  Two requests of one owner with
\* overlapping windows can both pass the check and both insert, and this is
\* the way it happens: when neither check failed and the durations are not
\* negative, two conflicting events are stored only if both checks ran
\* before either insert.
C19_OverlapOnlyByInterleaving ==
    (/\ BothInserted
     /\ CreatedEventsOverlap
     /\ \A i \in 1..Len(trace) : ~trace[i].fail
     /\ \A r \in Requests : DurationOrZero(state[r].event_data.duration) >= 0)
    => \A r, q \in Requests :
           StepIndex(r, "check_event_conflict") < StepIndex(q, "create_event")

\* Both checks returned no conflict without failing, both inserts committed,
\* and the store holds two events of one owner whose windows overlap.
C19_Witness ==
    /\ BothInserted
    /\ \A i \in 1..Len(trace) : ~trace[i].fail
    /\ \A r \in Requests : state[r].conflict_event = Value(NoEvent)
    /\ \E m, n \in store :
          /\ m # n
          /\ m.user_id = n.user_id
          /\ m.startDate < n.endDate
          /\ n.startDate < m.endDate

\* A range query has returned.
RangeQueryDone ==
    last.op = "get_events_by_date_range" /\ last.res.tag = "ok"

\* C20: get_events_by_date_range returns exactly the owner's events with
\* startDate >= start (when start is given) and endDate <= end (when end is
\* given), each bound on its own, each event once, in ascending startDate
\* order; with neither bound, all of the owner's events.
C20_DateRangeExact ==
    RangeQueryDone
    => LET events == last.res.value
           wanted == {m \in store :
                         /\ m.user_id = last.user_id
                         /\ (last.start_date = None
                             \/ m.startDate >= last.start_date)
                         /\ (last.end_date = None
                             \/ m.endDate <= last.end_date)}
       IN /\ Range(events) = {_convert_to_model(m) : m \in wanted}
          /\ Len(events) = Cardinality(wanted)
          /\ \A i, j \in 1..Len(events) :
                 i < j => events[i].startDate <= events[j].startDate
          /\ (last.start_date = None /\ last.end_date = None)
             => Len(events) = Cardinality({m \in store :
                                              m.user_id = last.user_id})

\* Only the end bound is given; of the owner's two events the one that
\* ends later is left out although it starts before the bound.
C20_Witness ==
    /\ RangeQueryDone
    /\ last.start_date = None
    /\ last.end_date # None
    /\ Len(last.res.value) = 1
    /\ \E m \in store : /\ m.user_id = last.user_id
                        /\ m.startDate <= last.end_date
                        /\ m.endDate > last.end_date

HttpStatus(l) ==
    CASE l.op = "get_event_by_event_id" ->
             IF l.res.tag = "ok"
             THEN IF l.res.value.user_id # l.user_id THEN 403 ELSE 200
             ELSE IF l.res.exc = "EventNotFoundError" THEN 404 ELSE 500
      [] l.op = "update_event" ->
             IF l.res.tag = "ok" THEN 200
             ELSE IF l.res.exc = "EventNotFoundError" THEN 404
             ELSE IF l.res.exc = "EventPermissionError" THEN 403
             ELSE 500
      [] l.op = "delete_event" ->
             IF l.res.value THEN 200 ELSE 404

\* C22: a get, update or delete addressed to an event that exists and
\* belongs to another owner is answered with 403, and one addressed to an id
\* that names no event with 404.
C22_ForeignEventIsForbidden ==
    (/\ last.op \in {"get_event_by_event_id", "update_event", "delete_event"}
     /\ ~last.fail)
    => /\ (\E m \in store : m.event_id = last.event_id
                            /\ m.user_id # last.user_id)
          => HttpStatus(last) = 403
       /\ (last.op # "delete_event"
           /\ \A m \in store : m.event_id # last.event_id)
          => HttpStatus(last) = 404


\* The filter stages of the list and the delete branch, with the message
\* each appends for an empty and for a non-empty re-hydrated list.
NothingFoundOf(node) ==
    IF node = "list_filter_event_agent"
    THEN AIMessage("Herhangi bir etkinlik bulunamadi")
    ELSE AIMessage("Silinecek herhangi bir etkinlik bulunamadi")

PleaseChooseOf(node) ==
    IF node = "list_filter_event_agent"
    THEN AIMessage("Etkinlikleri asagida gorebilirsiniz")
    ELSE AIMessage("Silinmesini istediginiz etkinlikleri asagida gorebilirsiniz. Lutfen silmek istediginiz etkinligi seciniz.")

\* The filter stage of a branch has ended on a JSON array of the model for
\* a non-empty candidate list: only then is the final list written.
FilteredArray(node) ==
    /\ Len(trace) > 0
    /\ trace[Len(trace)] = node
    /\ CandidatesOf(node).v # <<>>
    /\ FinalOf(node).set

CreateWindow(arguments) ==
    [start_date |-> arguments.startDate,
     end_date |-> arguments.startDate
                  + (IF "duration" \in arguments.keys
                     THEN arguments.duration ELSE 0)]

\* The rows of the owner that conflict with a window.
ConflictingRows(user_id, w) ==
    {m \in store : ConflictCondition(m, user_id, w.start_date, w.end_date,
                                     NoneStr)}

\* The message create_conflict_message_handler builds for an event.
ConflictMessageOf(e) ==
    AIMessage("Bu zaman araliginda cakisan bir etkinliginiz var: '"
              \o e.title \o "' (" \o FormatDate(e.startDate) \o " - "
              \o FormatDate(e.endDate) \o ")")

\* C24: a create turn ends with success only if the conflict check ran for
\* the extracted window and returned no event; when an event of the owner
\* conflicts with the window, the turn passes through
\* create_conflict_message_handler and ends without success on a message
\* with the title and the time range of a conflicting event, and the store
\* is as it was.
C24_CreateSuccessOnlyWithoutConflict ==
    /\ [](ClassifiedRoute = "create" /\ pc \in {"END", "done"}
          => /\ state.is_success
                => /\ last.op = "check_event_conflict"
                   /\ last.user_id = state.user_id
                   /\ last.exclude_event_id = NoneStr
                   /\ last.start_date
                        = CreateWindow(state.create_event_data.v.arguments).start_date
                   /\ last.end_date
                        = CreateWindow(state.create_event_data.v.arguments).end_date
                   /\ last.res.value = NoEvent
             /\ (/\ last.op = "check_event_conflict"
                 /\ ConflictingRows(state.user_id,
                        CreateWindow(state.create_event_data.v.arguments)) # {})
                => /\ trace[Len(trace)] = "create_conflict_message_handler"
                   /\ ~state.is_success
                   /\ \E m \in ConflictingRows(state.user_id,
                          CreateWindow(state.create_event_data.v.arguments)) :
                          LastOf(state.messages)
                              = ConflictMessageOf(_convert_to_model(m)))
    /\ [][store' = store]_vars


\* C25: after a successful update_event the id, the owner and every field
\* the update does not supply are as before; when startDate or duration is
\* supplied the stored endDate is the effective startDate plus the effective
\* duration, an unsupplied one of the two being the event's value before the
\* update; and the duration returned is endDate minus startDate.
C25_UpdateKeepsUnsuppliedFields ==
    UpdateDone
    => LET old == last.before
           new == StoredRow(last.event_id)
           event_data == last.event_data
           startDate == IF event_data.startDate # None
                        THEN event_data.startDate ELSE old.startDate
           duration == IF event_data.duration # None
                       THEN event_data.duration
                       ELSE old.endDate - old.startDate
       IN /\ new.event_id = old.event_id
          /\ new.user_id = old.user_id
          /\ event_data.title = NoneStr => new.title = old.title
          /\ event_data.location = NoneStr => new.location = old.location
          /\ new.startDate = startDate
          /\ (event_data.startDate # None \/ event_data.duration # None)
             => new.endDate = startDate + duration
          /\ (event_data.startDate = None /\ event_data.duration = None)
             => new.endDate = old.endDate
          /\ last.res.value.duration = new.endDate - new.startDate


\* A turn in which every step that can be taken is taken: the graph runner
\* executes the next node as soon as the previous one has returned, the
\* retry decorator calls again at once, and every model call and store call
\* returns or fails.
FlowLiveSpec == FlowSpec /\ WF_vars(FlowNext)

\* The nodes with an edge to END that are no branch's last processing node.
MessageHandlers ==
    {"router_message_handler", "create_conflict_message_handler"}
    \cup {MessageHandler(branch) : branch \in ValidRoutes}

\* C26: every turn reaches END after finitely many node executions, no node
\* executes twice in a turn, and the node executed last before END is the
\* last node of a branch or a message handler.
C26_EveryTurnReachesEnd ==
    /\ <>(pc = "END")
    /\ [](\A i, j \in 1..Len(trace) : trace[i] = trace[j] => i = j)
    /\ [](pc = "END" => trace[Len(trace)] \in SuccessNodes \cup MessageHandlers)


\* C27: in an update turn whose conflict check ran, the event reported as
\* update_conflict_event is none of the events being updated, whether
\* update_final_filtered_events holds one event or several.
C27_UpdatedEventsExcluded ==
    (/\ ClassifiedRoute = "update"
     /\ pc \in {"END", "done"}
     /\ state.update_conflict_event.set
     /\ state.update_conflict_event.v # NoEvent)
    => \A i \in 1..Len(state.update_final_filtered_events.v) :
           state.update_final_filtered_events.v[i].id
               # state.update_conflict_event.v.id


\* The date window a retrieval node reads from the extraction of its branch.
WindowArguments(branch) ==
    CASE branch = "list" -> state.list_date_range_data.v.arguments
      [] branch = "delete" -> state.delete_date_range_data.v.arguments
      [] branch = "update" ->
             LET arguments == state.update_date_range_data.v.arguments
             IN IF arguments.t = "dict" /\ "event_arguments" \in arguments.keys
                THEN arguments.event_arguments
                ELSE [arguments EXCEPT !.keys = {}]

\* The retrieval node of a branch has just run on a window that is an object
\* whose bounds, where given, are dates, and no query of it has failed.
Retrieved(branch) ==
    /\ Len(trace) > 0
    /\ trace[Len(trace)] = ProcessingNode(branch)
    /\ WindowArguments(branch).t = "dict"
    /\ Get(WindowArguments(branch), "startDate") # BadDate
    /\ Get(WindowArguments(branch), "endDate") # BadDate
    /\ ~(last.op = "get_events_by_date_range" /\ last.fail)

\* C28: in the list, delete and update branches a window that omits
\* startDate, endDate or both selects the owner's events that satisfy the
\* bounds it does give, all of the owner's events when it gives none.
C28_WindowIsOptional ==
    \A branch \in {"list", "delete", "update"} :
        Retrieved(branch)
        => \E rows \in DateRangeRows(store, state.user_id,
                           Get(WindowArguments(branch), "startDate"),
                           Get(WindowArguments(branch), "endDate")) :
               CandidatesOf(branch \o "_filter_event_agent").v = ConvertAll(rows)


\* The requests ran one after the other: the log passes from one request
\* to the other only after the first has inserted or was answered with 409.
Sequential ==
    \A i \in 1..(Len(trace) - 1) :
        trace[i].request # trace[i + 1].request
        => \/ trace[i].step = "create_event"
           \/ result[trace[i].request] = Raise("HTTPException 409")

\* The rows of the request's owner that conflict with the window of the
\* request, [startDate, startDate + duration).
ConflictsOfRequest(r) ==
    Conflicting(store, state[r].user_id, state[r].event_data.startDate,
                state[r].event_data.startDate
                    + DurationOrZero(state[r].event_data.duration),
                NoneStr)

\* C29: when the requests run one at a time, create_event_with_conflict_check
\* inserts only if no event of the owner conflicts with the window at the
\* time of the call, a request whose window conflicts is answered with 409
\* and leaves the store as it was, and so the store never holds two
\* conflicting events of one owner.
C29_SequentialNeverConflicts ==
    /\ [](Sequential
          => \A m, n \in store :
                 (m # n /\ m.user_id = n.user_id)
                 => ~Overlaps(m, n.startDate, n.endDate))
    /\ [][\A r \in Requests :
            (Sequential' /\ pc[r] # "done" /\ ConflictsOfRequest(r) # {})
            => /\ store' = store
               /\ pc'[r] # pc[r] => /\ pc'[r] = "done"
                                    /\ result'[r] = Raise("HTTPException 409")]_vars


\* C30: no step of a turn changes the event store, on any route and with
\* any outcome, success included; the only store operations a turn makes
\* are the range query and the conflict check.
C30_FlowNeverWrites ==
    /\ [][store' = store /\ usedIds' = usedIds]_vars
    /\ [](last.op \in {"none", "get_events_by_date_range",
                       "check_event_conflict"})

\* A delete turn has ended with success on events of the store, which are
\* still stored.
C30_Witness ==
    /\ pc = "done"
    /\ ClassifiedRoute = "delete"
    /\ result.kind = "delete"
    /\ Len(result.events) > 0
    /\ \A i \in 1..Len(result.events) :
           \E m \in store : _convert_to_model(m) = result.events[i]

=============================================================================
